---- MODULE Spec2Model ----
(***************************************************************************)
(* State-machine model of the CTJ Fase 3 backend (Express + Supabase +     *)
(* Google Sheets): src/app.js (latest revision) and src/unnamed/part_000   *)
(* (the earlier revision of the same file, without the session gate).      *)
(*                                                                         *)
(* A handler is an async function: it runs without interruption up to its  *)
(* next `await`, and other requests run while it waits.  Each action below *)
(* is one such run: the awaited remote call completes (with a result, a    *)
(* reported error, or a rejection) and the handler continues up to its     *)
(* next await or to its end.                                               *)
(*                                                                         *)
(* Conventions for JavaScript values:                                      *)
(*   - an absent body field is Missing ("undefined");                      *)
(*   - movie_id is an integer, 0 standing for absent-or-zero, which the    *)
(*     only test made on it (`!movie_id`) does not tell apart;             *)
(*   - title is a sequence of characters, <<>> standing for absent-or-     *)
(*     empty, which `!title` does not tell apart;                          *)
(*   - an e-mail address or a refresh token is named by the account it     *)
(*     belongs to.                                                         *)
(* The remote services (auth provider, database, spreadsheet) are outside  *)
(* the repository: each call's outcome is an input, "ok", "error" (the     *)
(* call returns {error}) or "throw" (the promise rejects).  The auth       *)
(* client `supabase` is one module-level object shared by all requests;    *)
(* signInWithPassword/setSession store the session in it and getSession    *)
(* reads it back, which is what verifyUser relies on.                      *)
(***************************************************************************)
EXTENDS Integers, Sequences, FiniteSets, TLC

\* ------------------------------------------------------------- bounds
MaxReqs == 2        \* requests received under Spec (all routes)
MaxToggles == 3     \* requests received under SpecToggle / SpecSeq
MaxThird == 4       \* requests received under SpecThird
MaxInFlight == 2    \* requests being handled at once
MaxClock == 1       \* the clock runs 0..MaxClock

\* ------------------------------------------------------------- values
Missing == "undefined"
NoUser == "none"
Users == {"u1", "u2"}
Clients == {"a", "b"}
Outcomes == {"ok", "error", "throw"}

MovieIds == {1, 2}

Max(a, b) == IF a >= b THEN a ELSE b
Reqs == 1..Max(MaxReqs, Max(MaxToggles, MaxThird))

\* `!x` on a body field
Falsy(v) == v \in {Missing, ""}

\* the request bodies / query strings the model sends
RegisterBodies ==
  { [email |-> "u1", password |-> "pw"],
    [email |-> Missing, password |-> "pw"],
    [email |-> "u1", password |-> Missing] }
RefreshBodies ==
  { [access_token |-> "u1", refresh_token |-> "u1"],
    [access_token |-> Missing, refresh_token |-> "u1"],
    [access_token |-> "u1", refresh_token |-> Missing] }
TitleQueries == { <<>>, <<"m", "A">> }
WatchedBodies ==
  { [user_uuid |-> "u1", movie_id |-> 1],
    [user_uuid |-> Missing, movie_id |-> 1],
    [user_uuid |-> "u1", movie_id |-> 0] }
SuggestBodies ==
  { [titulo |-> "Dune", usuario |-> "ana"],
    [titulo |-> Missing, usuario |-> "ana"],
    [titulo |-> "Dune", usuario |-> Missing] }
\* the bodies of the toggle-only specifications
ToggleBodies ==
  { [user_uuid |-> "u1", movie_id |-> 2],
    [user_uuid |-> "u2", movie_id |-> 2] }
LoginBodies == { [email |-> "u1", password |-> "pw"] }

\* the remote table `filmes` (read-only for this program)
filmes ==
  { [id |-> 1, titulo |-> <<"M", "a", "t">>],
    [id |-> 2, titulo |-> <<"D", "u">>] }

\* the remote table `assistido` outlives the server: what it may hold when
\* the server starts (ids 1..n)
StoredTables == { {}, {[id |-> 1, filme_id |-> 1, user_id |-> "u1"]} }

\* what the provider puts in a reported error
ProviderError == "provider error detail"

\* ------------------------------------------------------------- state
VARIABLES
  revision,     \* which revision of the file runs: "app" or "part_000"
  session,      \* the session held by the shared auth client (its user)
  sessionAlone, \* ghost: per client, the session had the OTHER clients
                \* made no login/refresh request
  assistido,    \* the remote table of watched-marks: rows [id, filme_id, user_id]
  nextId,       \* the table's serial id
  ver,          \* ghost: per (user, movie), the number of writes made for it
  sheet,        \* the spreadsheet's rows, in order
  now,          \* the clock read by new Date()
  reqs          \* the requests: body, position in the handler, response

vars == <<revision, session, sessionAlone, assistido, nextId, ver, sheet, now, reqs>>

NoResp == [status |-> 0, message |-> "", data |-> {}]

Idle ==
  [ route |-> "none", client |-> "none", pc |-> "idle",
    email |-> Missing, password |-> Missing,
    access_token |-> Missing, refresh_token |-> Missing,
    title |-> <<>>, user_uuid |-> Missing, movie_id |-> 0,
    titulo |-> Missing, usuario |-> Missing,
    timestamp |-> -1,          \* const timestamp
    found |-> {},              \* the ids of the rows `assistido` the select returned
    target |-> 0,              \* assistido[0].id
    resp |-> NoResp,
    \* ghost fields, read by the properties only
    startedAt |-> -1,          \* the clock when the handler started
    after |-> {},              \* the requests already answered when it started
    calls |-> {},              \* the calls made on the remote clients
    errAt |-> "none",          \* the call that reported an error
    thrownAt |-> "none",       \* the call (or statement) that threw
    gateUser |-> "unset",      \* what the route handler's verifyUser returned
    aloneUser |-> "unset",     \* the same, had other clients not logged in
    innerUser |-> "unset",     \* what toggleWatchedMovie's verifyUser returned
    v0 |-> -1, v1 |-> -1,      \* ver of the pair at the select / after the write
    newId |-> 0,               \* the id of the row it inserted
    rowsAfter |-> {},          \* the pair's row ids right after its write
    rowIdx |-> 0,              \* the index of the sheet row it appended
    tries |-> 0 ]              \* how many times it called addToSheet

Init ==
  /\ revision \in {"app", "part_000"}
  /\ session = NoUser
  /\ sessionAlone = [c \in Clients |-> NoUser]
  /\ assistido \in StoredTables
  /\ nextId = Cardinality(assistido) + 1
  /\ ver = [u \in Users \cup {Missing}, m \in MovieIds |-> 0]
  /\ sheet = <<>>
  /\ now = 0
  /\ reqs = [r \in Reqs |-> Idle]

\* the same, the remote table empty
InitEmpty == Init /\ assistido = {}

\* ------------------------------------------------------------- helpers
Finished == {"done", "escaped", "silent"}

\* res.status(s).json({message, ...data}) ends the handler
Respond(q, s, m, d) ==
  [q EXCEPT !.pc = "done", !.resp = [status |-> s, message |-> m, data |-> d]]

\* the handler calls a remote client and awaits the result at `pc`
Await(q, pc, call) == [q EXCEPT !.pc = pc, !.calls = @ \cup {call}]
\* the awaited call returned {error} / rejected
Failed(q, call) == [q EXCEPT !.errAt = call]
Threw(q, what) == [q EXCEPT !.thrownAt = what]
\* an exception leaves the handler: Express 4 does not catch a rejected async
\* handler, so no response is ever sent
Escape(q, what) == [q EXCEPT !.pc = "escaped", !.thrownAt = what]

\* a request arrives in slot r (slots fill in order)
InFlight == {q \in Reqs : reqs[q].pc \notin Finished \cup {"idle"}}

Free(r) ==
  /\ reqs[r].pc = "idle"
  /\ IF r = 1 THEN TRUE ELSE reqs[r - 1].pc # "idle"
  /\ Cardinality(InFlight) < MaxInFlight

Received(route, c) ==
  [Idle EXCEPT !.route = route, !.client = c, !.startedAt = now,
               !.after = {q \in Reqs : reqs[q].pc \in Finished}]

Set(r, q) == reqs' = [reqs EXCEPT ![r] = q]

Others == <<revision, session, sessionAlone, assistido, nextId, ver, sheet, now>>

\* ------------------------------------------------------------- auth routes
\* POST /auth/register/
PostRegister(r, c, b) ==
  /\ Free(r)
  /\ LET q == [Received("register", c) EXCEPT !.email = b.email, !.password = b.password]
     IN Set(r, IF Falsy(b.email) \/ Falsy(b.password)
               THEN Respond(q, 400, "Missing email or password", {})
               ELSE Await(q, "signUp", "signUp"))
  /\ UNCHANGED Others

SignUpReturns(r, o) ==
  /\ reqs[r].pc = "signUp"
  /\ LET q == reqs[r]
     IN Set(r, CASE o = "ok" -> Respond(q, 200, "Signup successful", {})
                 [] o = "error" -> Respond(Failed(q, "signUp"), 500, "Signup failed", {})
                 [] o = "throw" -> Respond(Threw(q, "signUp"), 500, "Unexpected error", {}))
  /\ UNCHANGED Others

\* POST /auth/login/
PostLogin(r, c, b) ==
  /\ Free(r)
  /\ LET q == [Received("login", c) EXCEPT !.email = b.email, !.password = b.password]
     IN Set(r, IF Falsy(b.email) \/ Falsy(b.password)
               THEN Respond(q, 400, "Missing email or password", {})
               ELSE Await(q, "signInWithPassword", "signInWithPassword"))
  /\ UNCHANGED Others

\* a successful sign-in stores the session in the shared auth client
SignInReturns(r, o) ==
  /\ reqs[r].pc = "signInWithPassword"
  /\ LET q == reqs[r]
     IN /\ Set(r, CASE o = "ok" ->
                         Respond(q, 200, "Login successful", {[kind |-> "session", user |-> q.email]})
                    [] o = "error" ->
                         Respond(Failed(q, "signInWithPassword"), 401, "Invalid email or password", {})
                    [] o = "throw" ->
                         Respond(Threw(q, "signInWithPassword"), 500, "Unexpected error", {}))
        /\ session' = IF o = "ok" THEN q.email ELSE session
        /\ sessionAlone' = IF o = "ok" THEN [sessionAlone EXCEPT ![q.client] = q.email]
                           ELSE sessionAlone
  /\ UNCHANGED <<revision, assistido, nextId, ver, sheet, now>>

\* POST /auth/refresh/ (part_000 names the field refreshToken and calls
\* refreshSession; the checks and the replies are the same)
PostRefresh(r, c, b) ==
  /\ Free(r)
  /\ LET q == [Received("refresh", c) EXCEPT !.access_token = b.access_token,
                                             !.refresh_token = b.refresh_token]
     IN Set(r, IF Falsy(b.refresh_token)
               THEN Respond(q, 400, "Missing refresh token", {})
               ELSE IF revision = "app" THEN Await(q, "setSession", "setSession")
                    ELSE Await(q, "setSession", "refreshSession"))
  /\ UNCHANGED Others

SetSessionReturns(r, o) ==
  /\ reqs[r].pc = "setSession"
  /\ LET q == reqs[r]
         call == IF revision = "app" THEN "setSession" ELSE "refreshSession"
         data == IF revision = "app" THEN {[kind |-> "session", user |-> q.refresh_token]}
                 ELSE {[kind |-> "access_token", user |-> q.refresh_token]}
     IN /\ Set(r, CASE o = "ok" ->
                         Respond(q, 200, "Access token refreshed successfully", data)
                    [] o = "error" ->
                         Respond(Failed(q, call), 401, "Invalid refresh token", {})
                    [] o = "throw" ->
                         Respond(Threw(q, call), 500, "Unexpected error", {}))
        /\ session' = IF o = "ok" THEN q.refresh_token ELSE session
        /\ sessionAlone' = IF o = "ok" THEN [sessionAlone EXCEPT ![q.client] = q.refresh_token]
                           ELSE sessionAlone
  /\ UNCHANGED <<revision, assistido, nextId, ver, sheet, now>>

\* ------------------------------------------------------------- session gate
\* verifyUser: const { data: { user } } = await supabase.auth.getSession().
\* It takes nothing from the request: the user is the shared client's.  A
\* reported error is not read; the lookup then yields no user.
verifyUser(o, s) == IF o = "ok" THEN s ELSE NoUser

\* mutant: the gate lets everyone through
IsAuthAlways(user) == TRUE

\* if (isAuth)
IsAuth(user) == user # NoUser

\* ------------------------------------------------------------- movie routes
\* getMovies, after the gate: the select on `filmes` is issued
getMoviesBody(q) == Await(q, "selectAll", "select")

\* GET /movies/title/, after the gate
titleBody(q) ==
  IF q.title = <<>> THEN Respond(q, 400, "Missing title parameter", {})
  ELSE Await(q, "selectTitle", "select")

\* req.user of part_000's toggleWatchedMovie: nothing in the file sets it
reqUser == NoUser

\* toggleWatchedMovie up to its first await.  app.js: the second verifyUser.
\* part_000: `const userUuid = req.user.uuid`, before the try block.
toggleEnter(q) ==
  IF revision = "app" THEN Await(q, "getSession2", "getSession")
  ELSE IF reqUser = NoUser THEN Escape(q, "req.user.uuid")
  ELSE Await([q EXCEPT !.user_uuid = reqUser], "select", "select")

\* POST /movies/watched/, after the gate (only movie_id is checked)
watchedBody(q) ==
  IF q.movie_id = 0 THEN Respond(q, 400, "Missing movie ID", {})
  ELSE toggleEnter(q)

\* POST /movies/suggest/, after the gate: the timestamp is taken here, then
\* addToSheet runs up to `await doc.loadInfo()` (nothing is validated)
suggestBody(q) ==
  Await([q EXCEPT !.timestamp = now, !.tries = @ + 1], "loadInfo", "loadInfo")

\* a gated handler starts: app.js awaits verifyUser first, part_000 has no gate
Enter(q, body) ==
  IF revision = "app" THEN Await(q, "getSession", "getSession") ELSE body

GetMovies(r, c) ==
  /\ Free(r)
  /\ LET q == Received("movies", c) IN Set(r, Enter(q, getMoviesBody(q)))
  /\ UNCHANGED Others

GetMoviesTitle(r, c, t) ==
  /\ Free(r)
  /\ LET q == [Received("title", c) EXCEPT !.title = t] IN Set(r, Enter(q, titleBody(q)))
  /\ UNCHANGED Others

PostWatched(r, c, b) ==
  /\ Free(r)
  /\ LET q == [Received("watched", c) EXCEPT !.user_uuid = b.user_uuid, !.movie_id = b.movie_id]
     IN Set(r, Enter(q, watchedBody(q)))
  /\ UNCHANGED Others

PostSuggest(r, c, b) ==
  /\ Free(r)
  /\ LET q == [Received("suggest", c) EXCEPT !.titulo = b.titulo, !.usuario = b.usuario]
     IN Set(r, Enter(q, suggestBody(q)))
  /\ UNCHANGED Others

\* the route handler's `await verifyUser()` completes (app.js only).  The
\* await is outside every try block: a rejection leaves the handler.
VerifyUserReturns(r, o) ==
  /\ reqs[r].pc = "getSession"
  /\ LET q == reqs[r]
         user == verifyUser(o, session)
         g == [q EXCEPT !.gateUser = user, !.aloneUser = verifyUser(o, sessionAlone[q.client])]
     IN Set(r, IF o = "throw" THEN Escape(q, "getSession")
               ELSE IF ~IsAuth(user) THEN Respond(g, 401, "User not authorized", {})
               ELSE CASE q.route = "movies" -> getMoviesBody(g)
                      [] q.route = "title" -> titleBody(g)
                      [] q.route = "watched" -> watchedBody(g)
                      [] q.route = "suggest" -> suggestBody(g))
  /\ UNCHANGED Others

\* toggleWatchedMovie's own `await verifyUser()` completes (app.js only): with
\* no user the function returns without answering (`if (isAuth)` has no else)
ToggleVerifyUserReturns(r, o) ==
  /\ reqs[r].pc = "getSession2"
  /\ LET q == reqs[r]
         user == verifyUser(o, session)
         g == [q EXCEPT !.innerUser = user]
     IN Set(r, IF o = "throw" THEN Escape(q, "getSession")
               ELSE IF ~IsAuth(user) THEN [g EXCEPT !.pc = "silent"]
               ELSE Await(g, "select", "select"))
  /\ UNCHANGED Others

\* ILIKE: % matches any run of characters, _ any one, the rest without case
Lower(c) ==
  CASE c = "M" -> "m" [] c = "A" -> "a" [] c = "T" -> "t"
    [] c = "D" -> "d" [] c = "U" -> "u" [] OTHER -> c

RECURSIVE Like(_, _)
Like(s, p) ==
  IF p = <<>> THEN s = <<>>
  ELSE IF Head(p) = "%" THEN Like(s, Tail(p)) \/ (s # <<>> /\ Like(Tail(s), p))
  ELSE /\ s # <<>>
       /\ (Head(p) = "_" \/ Lower(Head(p)) = Lower(Head(s)))
       /\ Like(Tail(s), Tail(p))

\* .ilike('titulo', `%${title}%`)
TitleMatches(titulo, title) == Like(titulo, <<"%">> \o title \o <<"%">>)

SelectAllReturns(r, o) ==
  /\ reqs[r].pc = "selectAll"
  /\ LET q == reqs[r]
     IN Set(r, CASE o = "ok" -> Respond(q, 200, "", filmes)
                 [] o = "error" -> Respond(Failed(q, "select"), 500, "Failed to retrieve movies", {})
                 [] o = "throw" -> Respond(Threw(q, "select"), 500, "Internal server error", {}))
  /\ UNCHANGED Others

SelectTitleReturns(r, o) ==
  /\ reqs[r].pc = "selectTitle"
  /\ LET q == reqs[r]
     IN Set(r, CASE o = "ok" ->
                      Respond(q, 200, "", {f \in filmes : TitleMatches(f.titulo, q.title)})
                 [] o = "error" -> Respond(Failed(q, "select"), 500, "Failed to retrieve movies", {})
                 [] o = "throw" -> Respond(Threw(q, "select"), 500, "Internal server error", {}))
  /\ UNCHANGED Others

\* ------------------------------------------------------------- watched toggle
\* .from('assistido').select('*').eq('filme_id', movie_id).eq('user_id', user_uuid)
Matching(rows, u, m) == {w \in rows : w.filme_id = m /\ w.user_id = u}

IdsOf(rows) == {w.id : w \in rows}

\* mutant: `assistido.length > 1`
HasRowsOffByOne(found) == Cardinality(found) > 1

\* if (assistido.length > 0)
HasRows(found) == Cardinality(found) > 0

\* assistido[0]: the select states no order, so any returned row may be first
FirstOf(found) == IF found = {} THEN {0} ELSE found

\* mutant: the delete filters on the wrong column
DeleteByIdWrongColumn(rows, id) == {w \in rows : w.filme_id # id}

\* .delete().eq('id', assistido[0].id)
DeleteById(rows, id) == {w \in rows : w.id # id}

\* mutant: an upsert on (filme_id, user_id) in place of the insert
InsertRowUpsert(rows, id, u, m) ==
  {w \in rows : ~(w.filme_id = m /\ w.user_id = u)}
    \cup {[id |-> id, filme_id |-> m, user_id |-> u]}

\* .insert([{ filme_id: movie_id, user_id: user_uuid }]): the table assigns the id
InsertRow(rows, id, u, m) == rows \cup {[id |-> id, filme_id |-> m, user_id |-> u]}

\* mutant: the reply carries the provider's error (`error.message`)
toggleErrorLeak(call) == ProviderError

\* the fixed message of each failing call of the toggle
toggleError(call) ==
  CASE call = "select" -> "Failed to check watched status"
    [] call = "delete" -> "Failed to remove movie from watched list"
    [] call = "insert" -> "Failed to mark movie as watched"

\* the existence check returns; the handler branches and issues the write
ToggleSelectReturns(r, o) ==
  /\ reqs[r].pc = "select"
  /\ LET q == reqs[r]
         found == IdsOf(Matching(assistido, q.user_uuid, q.movie_id))
     IN \E t \in FirstOf(found) :
          LET g == [q EXCEPT !.found = found, !.target = t, !.v0 = ver[q.user_uuid, q.movie_id]]
          IN Set(r, CASE o = "ok" ->
                           IF HasRows(found)
                           THEN IF found = {}
                                THEN Respond(Threw(g, "assistido[0].id"), 500, "Internal server error", {})
                                ELSE Await(g, "delete", "delete")
                           ELSE Await(g, "insert", "insert")
                      [] o = "error" -> Respond(Failed(q, "select"), 500, toggleError("select"), {})
                      [] o = "throw" -> Respond(Threw(q, "select"), 500, "Internal server error", {}))
  /\ UNCHANGED Others

ToggleDeleteReturns(r, o) ==
  /\ reqs[r].pc = "delete"
  /\ LET q == reqs[r]
         u == q.user_uuid
         m == q.movie_id
         rows == DeleteById(assistido, q.target)
     IN /\ assistido' = IF o = "ok" THEN rows ELSE assistido
        /\ ver' = IF o = "ok" THEN [ver EXCEPT ![u, m] = @ + 1] ELSE ver
        /\ Set(r, CASE o = "ok" ->
                         Respond([q EXCEPT !.v1 = ver[u, m] + 1,
                                           !.rowsAfter = IdsOf(Matching(rows, u, m))],
                                 200, "Movie removed from watched list successfully", {})
                    [] o = "error" -> Respond(Failed(q, "delete"), 500, toggleError("delete"), {})
                    [] o = "throw" -> Respond(Threw(q, "delete"), 500, "Internal server error", {}))
  /\ UNCHANGED <<revision, session, sessionAlone, nextId, sheet, now>>

ToggleInsertReturns(r, o) ==
  /\ reqs[r].pc = "insert"
  /\ LET q == reqs[r]
         u == q.user_uuid
         m == q.movie_id
         rows == InsertRow(assistido, nextId, u, m)
     IN /\ assistido' = IF o = "ok" THEN rows ELSE assistido
        /\ nextId' = IF o = "ok" THEN nextId + 1 ELSE nextId
        /\ ver' = IF o = "ok" THEN [ver EXCEPT ![u, m] = @ + 1] ELSE ver
        /\ Set(r, CASE o = "ok" ->
                         Respond([q EXCEPT !.v1 = ver[u, m] + 1, !.newId = nextId,
                                           !.rowsAfter = IdsOf(Matching(rows, u, m))],
                                 200, "Movie marked as watched successfully", {})
                    [] o = "error" -> Respond(Failed(q, "insert"), 500, toggleError("insert"), {})
                    [] o = "throw" -> Respond(Threw(q, "insert"), 500, "Internal server error", {}))
  /\ UNCHANGED <<revision, session, sessionAlone, sheet, now>>

\* ------------------------------------------------------------- suggestion relay
\* mutant: titulo and usuario swapped in the row
SheetRowSwapped(q) == [titulo |-> q.usuario, usuario |-> q.titulo, timestamp |-> q.timestamp]

\* sheet.addRow({ titulo, usuario, timestamp })
SheetRow(q) == [titulo |-> q.titulo, usuario |-> q.usuario, timestamp |-> q.timestamp]

\* addToSheet reports a failure only by rejecting: the handler's catch
\* answers both outcomes alike
LoadInfoReturns(r, o) ==
  /\ reqs[r].pc = "loadInfo"
  /\ LET q == reqs[r]
     IN Set(r, CASE o = "ok" -> Await(q, "addRow", "addRow")
                 [] o = "error" -> Respond(Failed(q, "loadInfo"), 500, "Error adding suggestion!", {})
                 [] o = "throw" -> Respond(Threw(q, "loadInfo"), 500, "Error adding suggestion!", {}))
  /\ UNCHANGED Others

AddRowReturns(r, o) ==
  /\ reqs[r].pc = "addRow"
  /\ LET q == reqs[r]
     IN /\ sheet' = IF o = "ok" THEN Append(sheet, SheetRow(q)) ELSE sheet
        /\ Set(r, CASE o = "ok" ->
                         Respond([q EXCEPT !.rowIdx = Len(sheet) + 1], 200,
                                 "Movie suggestion added successfully!", {})
                    [] o = "error" -> Respond(Failed(q, "addRow"), 500, "Error adding suggestion!", {})
                    [] o = "throw" -> Respond(Threw(q, "addRow"), 500, "Error adding suggestion!", {}))
  /\ UNCHANGED <<revision, session, sessionAlone, assistido, nextId, ver, now>>

\* time passes
Tick ==
  /\ now < MaxClock
  /\ now' = now + 1
  /\ UNCHANGED <<revision, session, sessionAlone, assistido, nextId, ver, sheet, reqs>>

\* ------------------------------------------------------------- specifications
\* every route, MaxReqs requests
Next ==
  \/ \E r \in 1..MaxReqs, c \in Clients :
       \/ \E b \in RegisterBodies : PostRegister(r, c, b)
       \/ \E b \in RegisterBodies : PostLogin(r, c, b)
       \/ \E b \in RefreshBodies : PostRefresh(r, c, b)
       \/ GetMovies(r, c)
       \/ \E t \in TitleQueries : GetMoviesTitle(r, c, t)
       \/ \E b \in WatchedBodies : PostWatched(r, c, b)
       \/ \E b \in SuggestBodies : PostSuggest(r, c, b)
  \/ \E r \in Reqs, o \in Outcomes :
       \/ SignUpReturns(r, o)
       \/ SignInReturns(r, o)
       \/ SetSessionReturns(r, o)
       \/ VerifyUserReturns(r, o)
       \/ ToggleVerifyUserReturns(r, o)
       \/ SelectAllReturns(r, o)
       \/ SelectTitleReturns(r, o)
       \/ ToggleSelectReturns(r, o)
       \/ ToggleDeleteReturns(r, o)
       \/ ToggleInsertReturns(r, o)
       \/ LoadInfoReturns(r, o)
       \/ AddRowReturns(r, o)
  \/ Tick

Spec == Init /\ [][Next]_vars

\* no toggle is between its existence check and its write
NoToggleWriting == \A q \in Reqs : reqs[q].pc \notin {"delete", "insert"}

\* logins and watched toggles only, n requests, one client
ToggleSteps(n, sequential) ==
  \/ \E r \in 1..n :
       \/ \E b \in LoginBodies : PostLogin(r, "a", b)
       \/ \E b \in ToggleBodies : PostWatched(r, "a", b)
  \/ \E r \in Reqs, o \in Outcomes :
       \/ SignInReturns(r, o)
       \/ VerifyUserReturns(r, o)
       \/ ToggleVerifyUserReturns(r, o)
       \/ (sequential => NoToggleWriting) /\ ToggleSelectReturns(r, o)
       \/ ToggleDeleteReturns(r, o)
       \/ ToggleInsertReturns(r, o)

NextToggle == ToggleSteps(MaxToggles, FALSE)
SpecToggle == InitEmpty /\ [][NextToggle]_vars

\* the same, the toggles one after the other
NextSeq == ToggleSteps(MaxToggles, TRUE)
SpecSeq == InitEmpty /\ [][NextSeq]_vars

\* the same as SpecToggle, with room for a toggle after two concurrent ones
NextThird == ToggleSteps(MaxThird, FALSE)
SpecThird == InitEmpty /\ [][NextThird]_vars

\* the call request r awaits returns with outcome o and r's handler runs on
Returned(r, o) ==
  \/ SignUpReturns(r, o)
  \/ SignInReturns(r, o)
  \/ SetSessionReturns(r, o)
  \/ VerifyUserReturns(r, o)
  \/ ToggleVerifyUserReturns(r, o)
  \/ SelectAllReturns(r, o)
  \/ SelectTitleReturns(r, o)
  \/ ToggleSelectReturns(r, o)
  \/ ToggleDeleteReturns(r, o)
  \/ ToggleInsertReturns(r, o)
  \/ LoadInfoReturns(r, o)
  \/ AddRowReturns(r, o)

\* a remote call that returns: a result or a reported error, no rejection
Returning == Outcomes \ {"throw"}

\* every route, MaxReqs requests, no remote call rejects
NextLive ==
  /\ Next
  /\ \A r \in Reqs : reqs'[r].thrownAt \in {"none", "req.user.uuid"}

\* ... and every awaited call returns: the continuation of each request in
\* flight is eventually run by the event loop
SpecLive ==
  /\ Init
  /\ [][NextLive]_vars
  /\ \A r \in 1..MaxReqs : WF_vars(\E o \in Returning : Returned(r, o))

\* ------------------------------------------------------------- properties
Started == {r \in Reqs : reqs[r].pc # "idle"}
Pairs == (Users \cup {Missing}) \X MovieIds

Added == [status |-> 200, message |-> "Movie marked as watched successfully", data |-> {}]
Removed == [status |-> 200, message |-> "Movie removed from watched list successfully", data |-> {}]

\* a toggle whose delete or insert was carried out (so no call of it failed)
Wrote(q) == q.route = "watched" /\ q.pc = "done" /\ q.v1 # -1
\* every other request received so far was answered before r started
RanAlone(r) == \A p \in Started \ {r} : p \in reqs[r].after
SamePair(p, q) == p.user_uuid = q.user_uuid /\ p.movie_id = q.movie_id

\* C1 (as stated): a toggle that ran alone and met no remote error answers
\* "removed" and leaves no watched-mark for the pair if one existed when it
\* started, and answers "marked" and leaves exactly one if none existed.
C1_ToggleByExistence ==
  \A r \in Reqs :
    LET q == reqs[r]
    IN (Wrote(q) /\ RanAlone(r)) =>
         IF q.found # {}
         THEN q.resp = Removed /\ q.rowsAfter = {}
         ELSE q.resp = Added /\ Cardinality(q.rowsAfter) = 1

\* C2: when toggles do not overlap, the table holds at most one watched-mark
\* per (user, movie) pair, whatever calls fail.
C2_AtMostOnePerPair ==
  \A pr \in Pairs : Cardinality(Matching(assistido, pr[1], pr[2])) <= 1

C2_Witness ==
  \E r1, r2 \in Reqs :
    /\ reqs[r1].resp = Added
    /\ r1 \in reqs[r2].after /\ SamePair(reqs[r1], reqs[r2])
    /\ reqs[r2].errAt = "delete" /\ reqs[r2].pc = "done"
    /\ Cardinality(Matching(assistido, reqs[r1].user_uuid, reqs[r1].movie_id)) = 1

\* C3: two toggles of one pair whose existence checks both ran before either
\* insert (same version of the pair seen, then two writes in a row) both
\* answer "marked", and the pair then has both their rows.
C3_BothInsert ==
  \A r1, r2 \in Reqs :
    LET p == reqs[r1]
        q == reqs[r2]
    IN (/\ r1 # r2 /\ Wrote(p) /\ Wrote(q) /\ SamePair(p, q)
        /\ p.found = {} /\ q.found = {}
        /\ p.v0 = q.v0 /\ p.v1 = p.v0 + 1 /\ q.v1 = p.v1 + 1)
       => /\ p.resp = Added /\ q.resp = Added
          /\ p.newId # q.newId
          /\ q.rowsAfter = {p.newId, q.newId}

C3_Witness ==
  \E r1, r2 \in Reqs :
    /\ r1 # r2 /\ SamePair(reqs[r1], reqs[r2])
    /\ reqs[r1].resp = Added /\ reqs[r2].resp = Added
    /\ reqs[r1].found = {} /\ reqs[r2].found = {}
    /\ Cardinality(Matching(assistido, reqs[r1].user_uuid, reqs[r1].movie_id)) = 2

\* r2 is the next toggle of the pair after r1: it started after r1 was
\* answered, and no write was made for the pair between r1's and r2's
NextToggleOfPair(r1, r2) ==
  LET p == reqs[r1]
      q == reqs[r2]
  IN /\ r1 # r2 /\ Wrote(p) /\ Wrote(q) /\ SamePair(p, q)
     /\ r1 \in q.after
     /\ p.v1 = p.v0 + 1 /\ q.v0 = p.v1 /\ q.v1 = q.v0 + 1

RequiredMissing(q) ==
  CASE q.route \in {"register", "login"} -> Falsy(q.email) \/ Falsy(q.password)
    [] q.route = "refresh" -> Falsy(q.refresh_token)
    [] q.route = "title" -> q.title = <<>>
    [] q.route = "watched" -> Falsy(q.user_uuid) \/ q.movie_id = 0
    [] q.route = "suggest" -> Falsy(q.titulo) \/ Falsy(q.usuario)
    [] OTHER -> FALSE

\* the calls that go out to the auth provider, the database or the sheet
\* (the session lookup, which reads the client's own session, left aside)
RemoteCalls(q) == q.calls \ {"getSession"}

\* C5 (as stated, read on app.js and on the requests the session gate let
\* through, the auth routes having no gate being left to the 401/400 order):
\* a request that lacks a required field is answered 400 and no remote call
\* is made for it.
C5_MissingFieldIs400 ==
  \A r \in Reqs :
    LET q == reqs[r]
    IN (revision = "app" /\ RequiredMissing(q) /\ q.gateUser \notin {"unset", NoUser}) =>
         /\ RemoteCalls(q) = {}
         /\ q.pc \in Finished => q.resp.status = 400

\* the fixed messages of the error replies
FixedErrorMessages ==
  { "Signup failed", "Invalid email or password", "Invalid refresh token",
    "Failed to retrieve movies", "Failed to check watched status",
    "Failed to remove movie from watched list", "Failed to mark movie as watched",
    "Error adding suggestion!" }

C7_ExceptionsCaught ==
  \A r \in Reqs :
    LET q == reqs[r]
    IN q.thrownAt # "none" => q.pc = "done" /\ q.resp.status = 500

\* C8 (as stated): whether a gated request is authorized does not depend on
\* the login and refresh requests of other clients.
C8_GateIndependentOfOthers ==
  \A r \in Reqs :
    LET q == reqs[r]
    IN q.gateUser # "unset" => (IsAuth(q.gateUser) <=> IsAuth(q.aloneUser))

SuggestOk == "Movie suggestion added successfully!"
Suggests == {r \in Reqs : reqs[r].route = "suggest"}

\* what C9 says of the rows, for the timestamp `atStart` selects: an answer
\* 200 means one row of the request, at the index it appended; no request
\* calls addToSheet twice, an answer 500 ends the request; the rows of the
\* sheet are the rows appended, each still in place
SuggestRows(atStart) ==
  /\ \A r \in Suggests :
       LET q == reqs[r]
           stamp == IF atStart THEN q.startedAt ELSE q.timestamp
       IN /\ q.tries <= 1
          /\ q.resp.status = 500 => q.pc = "done"
          /\ (q.resp.status = 200 /\ q.resp.message = SuggestOk) => q.rowIdx # 0
          /\ q.rowIdx # 0 =>
               /\ q.rowIdx \in 1..Len(sheet)
               /\ sheet[q.rowIdx] =
                    [titulo |-> q.titulo, usuario |-> q.usuario, timestamp |-> stamp]
  /\ \A r1, r2 \in Suggests :
       (r1 # r2 /\ reqs[r1].rowIdx # 0) => reqs[r1].rowIdx # reqs[r2].rowIdx
  /\ Len(sheet) = Cardinality({r \in Suggests : reqs[r].rowIdx # 0})

\* C9 (as stated): the row holds the timestamp taken when the handler started.
C9_RowAtHandlerStart == SuggestRows(TRUE)

\* C9 (amended): the row holds the timestamp the handler took once its
\* session check had returned, which is not earlier than the handler's start.
C9_RowAtTimestamp ==
  /\ SuggestRows(FALSE)
  /\ \A r \in Suggests :
       reqs[r].rowIdx # 0 => reqs[r].timestamp \in reqs[r].startedAt..now

C9_Witness ==
  \E r \in Suggests :
    /\ revision = "app"
    /\ reqs[r].resp.status = 200 /\ reqs[r].rowIdx = 1
    /\ reqs[r].timestamp > reqs[r].startedAt

C11_EveryRequestAnswered ==
  \A r \in 1..MaxReqs :
    (revision = "app" /\ reqs[r].pc # "idle") ~> (reqs[r].pc = "done")

====
